---- MODULE Spec2Model ----
(***************************************************************************)
(* Model of the NBP tool server (src/src/nbp.py): seven tools that         *)
(* validate their parameters, issue one GET request to the upstream API    *)
(* and render the decoded JSON as text.                                    *)
(*                                                                         *)
(* Text is a sequence of atoms.  Caller-supplied strings (code, date,      *)
(* table) are sequences of one-character atoms, so that upper(), lower()   *)
(* and the date pattern work on characters; literal fragments of the       *)
(* f-strings of the source and the scalar values of the upstream JSON are  *)
(* single atoms.  Concatenation is \o.                                     *)
(***************************************************************************)
EXTENDS Integers, Sequences, FiniteSets, TLC

VARIABLES calls, net

vars == <<calls, net>>

(***************************************************************************)
(* Bounds of the model.                                                    *)
(***************************************************************************)
\* Number of tool calls that may be in progress at the same time.
MaxCalls == 2
\* Counts are drawn from -CountMargin .. COUNT_MAX + CountMargin.
CountMargin == 2

(***************************************************************************)
(* Program constants.                                                      *)
(***************************************************************************)
NBP_API_BASE == "https://api.nbp.pl/api"
COUNT_MIN == 1
COUNT_MAX == 255

(***************************************************************************)
(* Strings.                                                                *)
(***************************************************************************)
Digits == {"0", "1", "2", "3", "4", "5", "6", "7", "8", "9"}

\* str.upper() / str.lower(), character by character, on the alphabet used.
UpperChar(ch) ==
    CASE ch = "a" -> "A" [] ch = "b" -> "B" [] ch = "c" -> "C"
      [] ch = "d" -> "D" [] ch = "e" -> "E" [] ch = "r" -> "R"
      [] ch = "s" -> "S" [] ch = "u" -> "U" [] ch = "x" -> "X"
      [] ch = "z" -> "Z"
      [] ch = "Unknown" -> "UNKNOWN"
      [] OTHER -> ch

LowerChar(ch) ==
    CASE ch = "A" -> "a" [] ch = "B" -> "b" [] ch = "C" -> "c"
      [] ch = "D" -> "d" [] ch = "E" -> "e" [] ch = "R" -> "r"
      [] ch = "S" -> "s" [] ch = "U" -> "u" [] ch = "X" -> "x"
      [] ch = "Z" -> "z"
      [] OTHER -> ch

\* Mutant of upper: the code is used as typed.
upper_as_typed(s) == s

upper(s) == [i \in 1..Len(s) |-> UpperChar(s[i])]

\* Mutant of lower: the table type is compared as typed.
lower_as_typed(s) == s

lower(s) == [i \in 1..Len(s) |-> LowerChar(s[i])]

\* str(n) for a Python int: the decimal digits, with a sign when negative.
DigitChar(d) ==
    CASE d = 0 -> "0" [] d = 1 -> "1" [] d = 2 -> "2" [] d = 3 -> "3"
      [] d = 4 -> "4" [] d = 5 -> "5" [] d = 6 -> "6" [] d = 7 -> "7"
      [] d = 8 -> "8" [] d = 9 -> "9"

RECURSIVE NatStr(_)
NatStr(n) == IF n < 10 THEN <<DigitChar(n)>>
             ELSE NatStr(n \div 10) \o <<DigitChar(n % 10)>>

IntStr(n) == IF n < 0 THEN <<"-">> \o NatStr(0 - n) ELSE NatStr(n)

\* sep.join(parts) for a sequence of texts.
RECURSIVE Join(_, _)
Join(sep, parts) ==
    IF Len(parts) = 0 THEN <<>>
    ELSE IF Len(parts) = 1 THEN parts[1]
    ELSE parts[1] \o sep \o Join(sep, Tail(parts))

\* sub in text: sub occurs in text as a contiguous run of atoms.
Contains(text, sub) ==
    \E i \in 0..(Len(text) - Len(sub)) :
        \A j \in 1..Len(sub) : text[i + j] = sub[j]

(***************************************************************************)
(* Date validation.                                                        *)
(***************************************************************************)
\* DATE_PATTERN.match(date) for r'^\d{4}-\d{2}-\d{2}$': four digits, a
\* dash, two digits, a dash, two digits; Python's $ matches at the end of
\* the string and also just before a newline that ends the string.  (\d
\* also matches the decimal digits of other scripts; the inputs of the
\* model are ASCII.)
DATE_PATTERN(date) ==
    /\ \/ Len(date) = 10
       \/ (Len(date) = 11 /\ date[11] = "\n")
    /\ \A i \in 1..10 :
          IF i \in {5, 8} THEN date[i] = "-" ELSE date[i] \in Digits

\* The empty text stands for None: the callers test the result for
\* truthiness only, and the error message is never empty.
validate_date(date) ==
    IF Len(date) = 0 THEN <<>>
    ELSE IF ~DATE_PATTERN(date)
         THEN <<"Invalid date format: '">> \o date
              \o <<"'. Expected YYYY-MM-DD (e.g., 2024-01-15)">>
    ELSE <<>>

(***************************************************************************)
(* JSON values as Python holds them after response.json().                 *)
(***************************************************************************)
None == [kind |-> "none", v |-> <<>>]

\* A JSON string holds a text.
JStr(s) == [kind |-> "str", v |-> s]

\* A JSON number with a fraction: integer part and the digits after the dot.
JNum(ip, frac) == [kind |-> "num", v |-> [ip |-> ip, frac |-> frac]]

JObj(f) == [kind |-> "obj", v |-> f]

JArr(s) == [kind |-> "arr", v |-> s]

EmptyObj == [kind |-> "obj", v |-> <<>>]

EmptyArr == [kind |-> "arr", v |-> <<>>]

\* bool(x) of a decoded value: None, {} and [] are falsy.
Truthy(x) ==
    CASE x.kind = "none" -> FALSE
      [] x.kind = "obj" -> DOMAIN x.v # {}
      [] x.kind = "arr" -> Len(x.v) > 0
      [] x.kind = "str" -> Len(x.v) > 0
      [] OTHER -> TRUE

\* key in d, for a dict d.
Has(d, key) == key \in DOMAIN d.v

\* The digits of a fraction without its trailing zeros.
RECURSIVE StripZeros(_)
StripZeros(frac) ==
    IF Len(frac) > 0 /\ frac[Len(frac)] = "0"
    THEN StripZeros(SubSeq(frac, 1, Len(frac) - 1))
    ELSE frac

\* Mutant of PyStr: a float is rendered with two decimals, as f"{x:.2f}"
\* renders one whose third decimal is below 5.
PyStr_two_decimals(x) ==
    CASE x.kind = "str" -> x.v
      [] x.kind = "num" ->
            <<x.v.ip, ".">>
            \o [i \in 1..2 |-> IF i <= Len(x.v.frac) THEN x.v.frac[i]
                               ELSE "0"]
      [] x.kind = "none" -> <<"None">>
      [] OTHER -> <<"<container>">>

\* str(x) as an f-string renders a scalar: a str as it is, a float by its
\* shortest repr (trailing zeros of the fraction dropped, ".0" kept).
PyStr(x) ==
    CASE x.kind = "str" -> x.v
      [] x.kind = "num" ->
            LET f == StripZeros(x.v.frac)
            IN  <<x.v.ip, ".">> \o (IF Len(f) = 0 THEN <<"0">> ELSE f)
      [] x.kind = "none" -> <<"None">>
      [] OTHER -> <<"<container>">>

\* Mutant of GetStr: d.get(key) without a default, which gives None.
GetStr_no_default(d, key) ==
    IF Has(d, key) THEN PyStr(d.v[key]) ELSE <<"None">>

\* f"{d.get(key, 'Unknown')}"
GetStr(d, key) == IF Has(d, key) THEN PyStr(d.v[key]) ELSE <<"Unknown">>

(***************************************************************************)
(* What a tool call ends with: a returned text or a raised exception.      *)
(***************************************************************************)
Return(text) == [kind |-> "return", text |-> text]

Raise(exc) == [kind |-> "raise", text |-> <<exc>>]

NoResult == [kind |-> "pending", text |-> <<>>]

NL == <<"\n">>

(***************************************************************************)
(* Formatters.                                                             *)
(***************************************************************************)
\* Mutant of OptField: the line is appended whether or not key is in d.
OptField_always(d, key, label, suffix) ==
    <<(<<label>> \o (IF Has(d, key) THEN PyStr(d.v[key]) ELSE <<"Unknown">>)
       \o suffix)>>

\* f"Label: {d[key]}" appended if key in d.
OptField(d, key, label, suffix) ==
    IF Has(d, key) THEN <<(<<label>> \o PyStr(d.v[key]) \o suffix)>> ELSE <<>>

\* Mutant of format_rate: the mid rate is read with a default, as the
\* currency and the code are.
format_rate_mid_default(rate) ==
    IF rate.kind # "obj" THEN Raise("AttributeError")
    ELSE Return(Join(NL,
            <<(<<"Currency: ">> \o GetStr(rate, "currency")),
              (<<"Code: ">> \o GetStr(rate, "code"))>>
            \o OptField(rate, "country", "Country: ", <<>>)
            \o OptField(rate, "symbol", "Symbol: ", <<>>)
            \o <<(<<"Mid Rate: ">> \o GetStr(rate, "mid"))>>
            \o OptField(rate, "bid", "Bid Rate: ", <<>>)
            \o OptField(rate, "ask", "Ask Rate: ", <<>>)))

format_rate(rate) ==
    IF rate.kind # "obj" THEN Raise("AttributeError")
    ELSE Return(Join(NL,
            <<(<<"Currency: ">> \o GetStr(rate, "currency")),
              (<<"Code: ">> \o GetStr(rate, "code"))>>
            \o OptField(rate, "country", "Country: ", <<>>)
            \o OptField(rate, "symbol", "Symbol: ", <<>>)
            \o OptField(rate, "mid", "Mid Rate: ", <<>>)
            \o OptField(rate, "bid", "Bid Rate: ", <<>>)
            \o OptField(rate, "ask", "Ask Rate: ", <<>>)))

\* What `for x in v` iterates over; a dict yields its keys, which are str.
Iterable(v) == v.kind \in {"arr", "obj", "str"}

Items(v) ==
    CASE v.kind = "arr" -> v.v
      [] v.kind = "str" -> [i \in 1..Len(v.v) |-> JStr(<<v.v[i]>>)]
      [] v.kind = "obj" ->
            LET n == Cardinality(DOMAIN v.v)
            IN  [i \in 1..n |-> JStr(<<"key">>)]
      [] OTHER -> <<>>

\* len(v)
PyLen(v) == Len(Items(v))

\* Mutant of format_exchange_table: only the first rate is rendered, as
\* get_currency_rate renders rates[0].
format_exchange_table_first_rate(table) ==
    IF table.kind # "obj" THEN Raise("AttributeError")
    ELSE LET rates == IF Has(table, "rates") THEN table.v["rates"]
                      ELSE EmptyArr
             head == <<(<<"Table: ">> \o GetStr(table, "table")),
                       (<<"Number: ">> \o GetStr(table, "no"))>>
                     \o OptField(table, "tradingDate", "Trading Date: ", <<>>)
                     \o <<(<<"Effective Date: ">>
                           \o GetStr(table, "effectiveDate")),
                          (NL \o <<"Rates:">>)>>
         IN  Return(Join(NL,
                 head \o [i \in 1..(IF PyLen(rates) > 0 THEN 1 ELSE 0) |->
                            NL \o format_rate(Items(rates)[i]).text]))

format_exchange_table(table) ==
    IF table.kind # "obj" THEN Raise("AttributeError")
    ELSE LET rates == IF Has(table, "rates") THEN table.v["rates"]
                      ELSE EmptyArr
             head == <<(<<"Table: ">> \o GetStr(table, "table")),
                       (<<"Number: ">> \o GetStr(table, "no"))>>
                     \o OptField(table, "tradingDate", "Trading Date: ", <<>>)
                     \o <<(<<"Effective Date: ">>
                           \o GetStr(table, "effectiveDate")),
                          (NL \o <<"Rates:">>)>>
         IN  IF ~Iterable(rates) THEN Raise("TypeError")
             ELSE IF \E i \in 1..PyLen(rates) :
                        format_rate(Items(rates)[i]).kind = "raise"
             THEN Raise("AttributeError")
             ELSE Return(Join(NL,
                     head \o [i \in 1..PyLen(rates) |->
                                NL \o format_rate(Items(rates)[i]).text]))

format_gold_price(gold) ==
    IF gold.kind # "obj" THEN Raise("AttributeError")
    ELSE Return(<<"Date: ">> \o GetStr(gold, "data") \o NL
                \o <<"Price: ">> \o GetStr(gold, "cena") \o <<" PLN/g">>)
(***************************************************************************)
(* The tools.  Each tool is split at its one await: <tool>_begin is the    *)
(* code up to `await make_nbp_request(url)` (it ends the call with a text  *)
(* or asks for a URL), <tool>_finish the code after it.                    *)
(***************************************************************************)
Done(text) == [ret |-> TRUE, text |-> text, url |-> <<>>]

Fetch(url) == [ret |-> FALSE, text |-> <<>>, url |-> url]

TABLES == {<<"a">>, <<"b">>, <<"c">>}

InvalidTableMsg == <<"Invalid table type. Use 'a', 'b', or 'c'.">>

CountMsg == <<"Count must be between 1 and 255.">>

WeekendNote ==
    <<". The date may be a weekend, holiday, or outside the available data range.">>

\* The entry lines of the history and last-N tools, one per record.
RateEntry(rate) ==
    Join(<<" | ">>,
         <<(<<"Date: ">> \o GetStr(rate, "effectiveDate"))>>
         \o OptField(rate, "tradingDate", "Trading Date: ", <<>>)
         \o OptField(rate, "mid", "Mid Rate: ", <<" PLN">>)
         \o OptField(rate, "bid", "Bid Rate: ", <<" PLN">>)
         \o OptField(rate, "ask", "Ask Rate: ", <<" PLN">>))

\* data.get('table', 'Unknown').upper() needs a str.
TableIsStr(data) == Has(data, "table") => data.v["table"].kind = "str"

\* The three header lines shared by the rate tools.
RateHeader(data) ==
    <<(<<"Currency: ">> \o GetStr(data, "currency")),
      (<<"Code: ">> \o GetStr(data, "code")),
      (<<"Table: ">> \o upper(GetStr(data, "table")))>>

\* Mutant of get_currency_rate_begin: the date is validated before the
\* table type.
get_currency_rate_begin_date_first(a) ==
    LET code == upper(a.code)
        table == lower(a.table)
        date_error == validate_date(a.date)
    IN  IF Len(date_error) > 0 THEN Done(date_error)
        ELSE IF table \notin TABLES THEN Done(InvalidTableMsg)
        ELSE IF Len(a.date) > 0
             THEN Fetch(<<NBP_API_BASE, "/exchangerates/rates/">> \o table
                        \o <<"/">> \o code \o <<"/">> \o a.date \o <<"/">>)
        ELSE Fetch(<<NBP_API_BASE, "/exchangerates/rates/">> \o table
                   \o <<"/">> \o code \o <<"/">>)

get_currency_rate_begin(a) ==
    LET code == upper(a.code)
        table == lower(a.table)
        date_error == validate_date(a.date)
    IN  IF table \notin TABLES THEN Done(InvalidTableMsg)
        ELSE IF Len(date_error) > 0 THEN Done(date_error)
        ELSE IF Len(a.date) > 0
             THEN Fetch(<<NBP_API_BASE, "/exchangerates/rates/">> \o table
                        \o <<"/">> \o code \o <<"/">> \o a.date \o <<"/">>)
        ELSE Fetch(<<NBP_API_BASE, "/exchangerates/rates/">> \o table
                   \o <<"/">> \o code \o <<"/">>)

get_currency_rate_finish(a, data) ==
    LET code == upper(a.code)
        table == lower(a.table)
    IN  IF ~Truthy(data)
        THEN IF Len(a.date) > 0
             THEN Return(<<"Unable to fetch exchange rate for ">> \o code
                         \o <<" on ">> \o a.date \o WeekendNote)
             ELSE Return(<<"Unable to fetch current exchange rate for ">>
                         \o code \o <<" from table ">> \o upper(table)
                         \o <<".">>)
        ELSE IF data.kind # "obj" THEN Raise("AttributeError")
        ELSE LET rates == IF Has(data, "rates") THEN data.v["rates"]
                          ELSE EmptyArr
             IN  IF ~Truthy(rates)
                 THEN Return(<<"No exchange rate data available for ">>
                             \o code \o <<".">>)
                 ELSE IF rates.kind = "obj" THEN Raise("KeyError")
                 ELSE IF rates.kind \notin {"arr", "str"}
                      THEN Raise("TypeError")
                 ELSE LET rate_data == Items(rates)[1]
                      IN  IF ~TableIsStr(data) \/ rate_data.kind # "obj"
                          THEN Raise("AttributeError")
                          ELSE Return(Join(NL,
                                 RateHeader(data)
                                 \o <<(<<"Number: ">> \o GetStr(rate_data, "no")),
                                      (<<"Effective Date: ">>
                                       \o GetStr(rate_data, "effectiveDate"))>>
                                 \o OptField(rate_data, "tradingDate",
                                             "Trading Date: ", <<>>)
                                 \o OptField(rate_data, "mid", "Mid Rate: ",
                                             <<" PLN">>)
                                 \o OptField(rate_data, "bid", "Bid Rate: ",
                                             <<" PLN">>)
                                 \o OptField(rate_data, "ask", "Ask Rate: ",
                                             <<" PLN">>)))

\* Mutant of get_exchange_table_begin: the URL takes the table as typed.
get_exchange_table_begin_table_as_typed(a) ==
    LET table == lower(a.table)
        date_error == validate_date(a.date)
    IN  IF table \notin TABLES THEN Done(InvalidTableMsg)
        ELSE IF Len(date_error) > 0 THEN Done(date_error)
        ELSE IF Len(a.date) > 0
             THEN Fetch(<<NBP_API_BASE, "/exchangerates/tables/">> \o a.table
                        \o <<"/">> \o a.date \o <<"/">>)
        ELSE Fetch(<<NBP_API_BASE, "/exchangerates/tables/">> \o a.table
                   \o <<"/">>)

get_exchange_table_begin(a) ==
    LET table == lower(a.table)
        date_error == validate_date(a.date)
    IN  IF table \notin TABLES THEN Done(InvalidTableMsg)
        ELSE IF Len(date_error) > 0 THEN Done(date_error)
        ELSE IF Len(a.date) > 0
             THEN Fetch(<<NBP_API_BASE, "/exchangerates/tables/">> \o table
                        \o <<"/">> \o a.date \o <<"/">>)
        ELSE Fetch(<<NBP_API_BASE, "/exchangerates/tables/">> \o table
                   \o <<"/">>)

\* Mutant of get_exchange_table_finish: the last table of the array is
\* rendered, data[-1].
get_exchange_table_finish_last(a, data) ==
    LET table == lower(a.table)
    IN  IF ~Truthy(data) \/ data.kind # "arr" \/ PyLen(data) = 0
        THEN IF Len(a.date) > 0
             THEN Return(<<"Unable to fetch exchange rate table ">>
                         \o upper(table) \o <<" for ">> \o a.date
                         \o WeekendNote)
             ELSE Return(<<"Unable to fetch current exchange rate table ">>
                         \o upper(table) \o <<".">>)
        ELSE format_exchange_table(data.v[Len(data.v)])

get_exchange_table_finish(a, data) ==
    LET table == lower(a.table)
    IN  IF ~Truthy(data) \/ data.kind # "arr" \/ PyLen(data) = 0
        THEN IF Len(a.date) > 0
             THEN Return(<<"Unable to fetch exchange rate table ">>
                         \o upper(table) \o <<" for ">> \o a.date
                         \o WeekendNote)
             ELSE Return(<<"Unable to fetch current exchange rate table ">>
                         \o upper(table) \o <<".">>)
        ELSE format_exchange_table(data.v[1])

\* The body shared by get_currency_rate_history and
\* get_currency_rate_last_n once data is truthy: the header, the count line
\* and one entry per record.
\* Mutant of RateList: the records are listed oldest first, whatever the
\* order they came in (the documents here come newest first).
RateList_resorted(data, rates, countLine) ==
    IF ~TableIsStr(data) THEN Raise("AttributeError")
    ELSE IF \E i \in 1..PyLen(rates) : Items(rates)[i].kind # "obj"
    THEN Raise("AttributeError")
    ELSE Return(Join(NL,
            RateHeader(data) \o <<countLine>>
            \o [i \in 1..PyLen(rates) |->
                  RateEntry(Items(rates)[PyLen(rates) + 1 - i])]))

RateList(data, rates, countLine) ==
    IF ~TableIsStr(data) THEN Raise("AttributeError")
    ELSE IF \E i \in 1..PyLen(rates) : Items(rates)[i].kind # "obj"
    THEN Raise("AttributeError")
    ELSE Return(Join(NL,
            RateHeader(data) \o <<countLine>>
            \o [i \in 1..PyLen(rates) |-> RateEntry(Items(rates)[i])]))

get_currency_rate_history_begin(a) ==
    LET code == upper(a.code)
        table == lower(a.table)
    IN  IF table \notin TABLES THEN Done(InvalidTableMsg)
        ELSE Fetch(<<NBP_API_BASE, "/exchangerates/rates/">> \o table
                   \o <<"/">> \o code \o <<"/">> \o a.start_date
                   \o <<"/">> \o a.end_date \o <<"/">>)

\* Mutant of get_currency_rate_history_finish: the absent-result sentence
\* leaves out the end of the range.
get_currency_rate_history_finish_no_end(a, data) ==
    IF ~Truthy(data)
    THEN Return(<<"Unable to fetch historical data for ">> \o upper(a.code)
                \o <<" from ">> \o a.start_date \o <<".">>)
    ELSE Return(<<"No historical data available for ">> \o upper(a.code)
                \o <<" in the specified date range.">>)

get_currency_rate_history_finish(a, data) ==
    LET code == upper(a.code)
    IN  IF ~Truthy(data)
        THEN Return(<<"Unable to fetch historical data for ">> \o code
                    \o <<" from ">> \o a.start_date \o <<" to ">>
                    \o a.end_date \o <<".">>)
        ELSE IF data.kind # "obj" THEN Raise("AttributeError")
        ELSE LET rates == IF Has(data, "rates") THEN data.v["rates"]
                          ELSE EmptyArr
             IN  IF ~Truthy(rates)
                 THEN Return(<<"No historical data available for ">> \o code
                             \o <<" in the specified date range.">>)
                 ELSE IF ~Iterable(rates) THEN Raise("TypeError")
                 ELSE RateList(data, rates,
                        NL \o <<"Historical Rates (">> \o IntStr(PyLen(rates))
                        \o <<" entries):">> \o NL)

get_currency_rate_last_n_begin(a) ==
    LET code == upper(a.code)
        table == lower(a.table)
    IN  IF table \notin TABLES THEN Done(InvalidTableMsg)
        ELSE IF a.count < COUNT_MIN \/ a.count > COUNT_MAX
             THEN Done(CountMsg)
        ELSE Fetch(<<NBP_API_BASE, "/exchangerates/rates/">> \o table
                   \o <<"/">> \o code \o <<"/last/">> \o IntStr(a.count)
                   \o <<"/">>)

get_currency_rate_last_n_finish(a, data) ==
    LET code == upper(a.code)
    IN  IF ~Truthy(data)
        THEN Return(<<"Unable to fetch last ">> \o IntStr(a.count)
                    \o <<" rates for ">> \o code \o <<".">>)
        ELSE IF data.kind # "obj" THEN Raise("AttributeError")
        ELSE LET rates == IF Has(data, "rates") THEN data.v["rates"]
                          ELSE EmptyArr
             IN  IF ~Truthy(rates)
                 THEN Return(<<"No rate data available for ">> \o code
                             \o <<".">>)
                 ELSE IF ~Iterable(rates) THEN Raise("TypeError")
                 ELSE RateList(data, rates,
                        NL \o <<"Last ">> \o IntStr(PyLen(rates))
                        \o <<" Rates:">> \o NL)

get_gold_price_begin(a) ==
    LET date_error == validate_date(a.date)
    IN  IF Len(date_error) > 0 THEN Done(date_error)
        ELSE IF Len(a.date) > 0
             THEN Fetch(<<NBP_API_BASE, "/cenyzlota/">> \o a.date \o <<"/">>)
        ELSE Fetch(<<NBP_API_BASE, "/cenyzlota/">>)

\* Mutant of get_gold_price_finish: an empty list has a sentence of its
\* own, as in get_gold_price_last_n.
get_gold_price_finish_no_data(a, data) ==
    IF data.kind = "none" \/ data.kind # "arr"
    THEN IF Len(a.date) > 0
         THEN Return(<<"Unable to fetch gold price for ">> \o a.date
                     \o <<". The date may be a weekend, holiday, or outside the available data range (data available from 2013-01-02).">>)
         ELSE Return(<<"Unable to fetch current gold price.">>)
    ELSE IF Len(data.v) = 0
    THEN Return(<<"No gold price data available.">>)
    ELSE format_gold_price(data.v[1])

get_gold_price_finish(a, data) ==
    IF ~Truthy(data) \/ data.kind # "arr" \/ PyLen(data) = 0
    THEN IF Len(a.date) > 0
         THEN Return(<<"Unable to fetch gold price for ">> \o a.date
                     \o <<". The date may be a weekend, holiday, or outside the available data range (data available from 2013-01-02).">>)
         ELSE Return(<<"Unable to fetch current gold price.">>)
    ELSE format_gold_price(data.v[1])

\* The body shared by get_gold_price_history and get_gold_price_last_n for
\* a non-empty list: the count line and one block per record.
GoldList(data, countLine) ==
    IF \E i \in 1..Len(data.v) : format_gold_price(data.v[i]).kind = "raise"
    THEN Raise("AttributeError")
    ELSE Return(Join(NL,
            <<countLine>>
            \o [i \in 1..Len(data.v) |-> format_gold_price(data.v[i]).text]))

\* Mutant of get_gold_price_history_finish: the empty list is tested with
\* `not data`, as get_gold_price tests it.
get_gold_price_history_finish_not_data(a, data) ==
    IF ~Truthy(data) \/ data.kind # "arr"
    THEN Return(<<"Unable to fetch gold price history from ">>
                \o a.start_date \o <<" to ">> \o a.end_date \o <<".">>)
    ELSE GoldList(data, <<"Gold Price History (">> \o IntStr(Len(data.v))
                        \o <<" entries):">> \o NL)

\* Mutant of get_gold_price_history_begin: the start of the range is
\* validated as get_gold_price validates its date.
get_gold_price_history_begin_validated(a) ==
    LET date_error == validate_date(a.start_date)
    IN  IF Len(date_error) > 0 THEN Done(date_error)
        ELSE Fetch(<<NBP_API_BASE, "/cenyzlota/">> \o a.start_date \o <<"/">>
                   \o a.end_date \o <<"/">>)

get_gold_price_history_begin(a) ==
    Fetch(<<NBP_API_BASE, "/cenyzlota/">> \o a.start_date \o <<"/">>
          \o a.end_date \o <<"/">>)

get_gold_price_history_finish(a, data) ==
    IF data.kind = "none" \/ data.kind # "arr"
    THEN Return(<<"Unable to fetch gold price history from ">>
                \o a.start_date \o <<" to ">> \o a.end_date \o <<".">>)
    ELSE IF Len(data.v) = 0
    THEN Return(<<"No gold price data available for the specified date range.">>)
    ELSE GoldList(data, <<"Gold Price History (">> \o IntStr(Len(data.v))
                        \o <<" entries):">> \o NL)

\* Mutant of get_gold_price_last_n_begin: the upper limit is off by one.
get_gold_price_last_n_begin_off_by_one(a) ==
    IF a.count < COUNT_MIN \/ a.count > COUNT_MAX + 1 THEN Done(CountMsg)
    ELSE Fetch(<<NBP_API_BASE, "/cenyzlota/last/">> \o IntStr(a.count)
               \o <<"/">>)

get_gold_price_last_n_begin(a) ==
    IF a.count < COUNT_MIN \/ a.count > COUNT_MAX THEN Done(CountMsg)
    ELSE Fetch(<<NBP_API_BASE, "/cenyzlota/last/">> \o IntStr(a.count)
               \o <<"/">>)

get_gold_price_last_n_finish(a, data) ==
    IF data.kind = "none" \/ data.kind # "arr"
    THEN Return(<<"Unable to fetch last ">> \o IntStr(a.count)
                \o <<" gold prices.">>)
    ELSE IF Len(data.v) = 0
    THEN Return(<<"No gold price data available.">>)
    ELSE GoldList(data, <<"Last ">> \o IntStr(Len(data.v))
                        \o <<" Gold Prices:">> \o NL)
(***************************************************************************)
(* The tool surface: signatures, argument binding and dispatch.            *)
(***************************************************************************)
Tools == {"get_currency_rate", "get_exchange_table",
          "get_currency_rate_history", "get_currency_rate_last_n",
          "get_gold_price", "get_gold_price_history",
          "get_gold_price_last_n"}

ParamNames == {"code", "date", "table", "start_date", "end_date", "count"}

\* The parameters of each tool in the order of its signature.
Params(tool) ==
    CASE tool = "get_currency_rate" -> <<"code", "date", "table">>
      [] tool = "get_exchange_table" -> <<"date", "table">>
      [] tool = "get_currency_rate_history" ->
            <<"code", "start_date", "end_date", "table">>
      [] tool = "get_currency_rate_last_n" -> <<"code", "count", "table">>
      [] tool = "get_gold_price" -> <<"date">>
      [] tool = "get_gold_price_history" -> <<"start_date", "end_date">>
      [] tool = "get_gold_price_last_n" -> <<"count">>

\* The default of a parameter (date: str = "", table: str = "a"); a
\* parameter a tool does not have is left blank.
Default(p) ==
    CASE p = "table" -> <<"a">>
      [] p = "count" -> 0
      [] OTHER -> <<>>

\* A positional argument as the caller passes it.
PosArg(x) == [v |-> x]

\* Python's binding of a call f(*pos, **kw) to the signature: the i-th
\* positional value goes to the i-th parameter, a keyword to its name, and
\* what is left takes its default.
Bind(tool, pos, kw) ==
    [p \in ParamNames |->
        LET idx == {i \in 1..Len(pos) : i <= Len(Params(tool))
                                        /\ Params(tool)[i] = p}
        IN  IF idx # {} THEN pos[CHOOSE i \in idx : TRUE].v
            ELSE IF p \in DOMAIN kw THEN kw[p]
            ELSE Default(p)]

Begin(tool, a) ==
    CASE tool = "get_currency_rate" -> get_currency_rate_begin(a)
      [] tool = "get_exchange_table" -> get_exchange_table_begin(a)
      [] tool = "get_currency_rate_history" ->
            get_currency_rate_history_begin(a)
      [] tool = "get_currency_rate_last_n" ->
            get_currency_rate_last_n_begin(a)
      [] tool = "get_gold_price" -> get_gold_price_begin(a)
      [] tool = "get_gold_price_history" -> get_gold_price_history_begin(a)
      [] tool = "get_gold_price_last_n" -> get_gold_price_last_n_begin(a)

Finish(tool, a, data) ==
    CASE tool = "get_currency_rate" -> get_currency_rate_finish(a, data)
      [] tool = "get_exchange_table" -> get_exchange_table_finish(a, data)
      [] tool = "get_currency_rate_history" ->
            get_currency_rate_history_finish(a, data)
      [] tool = "get_currency_rate_last_n" ->
            get_currency_rate_last_n_finish(a, data)
      [] tool = "get_gold_price" -> get_gold_price_finish(a, data)
      [] tool = "get_gold_price_history" ->
            get_gold_price_history_finish(a, data)
      [] tool = "get_gold_price_last_n" ->
            get_gold_price_last_n_finish(a, data)

(***************************************************************************)
(* The upstream: what one GET can come back with.                          *)
(***************************************************************************)
\* err: what client.get raised ("none" when a response arrived); status
\* and body are those of the response; wellformed says the body is JSON,
\* and doc is what it decodes to.
Outcome(err, status, wellformed, doc) ==
    [err |-> err, status |-> status, wellformed |-> wellformed, doc |-> doc]

NoOutcome == Outcome("pending", 0, FALSE, None)

NetworkError == Outcome("network", 0, FALSE, None)

Timeout == Outcome("timeout", 0, FALSE, None)

Ok(doc) == Outcome("none", 200, TRUE, doc)

\* Mutant of make_nbp_request: raise_for_status is not called.
make_nbp_request_no_status_check(o) ==
    IF o.err # "none" THEN None
    ELSE IF ~o.wellformed THEN None
    ELSE o.doc

\* Lines 39-45: client.get raises on a network error or timeout,
\* raise_for_status on a status outside 2xx, response.json() on a body that
\* is not JSON; `except Exception` turns each into None.
make_nbp_request(o) ==
    IF o.err # "none" THEN None
    ELSE IF o.status < 200 \/ o.status > 299 THEN None
    ELSE IF ~o.wellformed THEN None
    ELSE o.doc
(***************************************************************************)
(* The JSON documents the upstream is modelled to answer with.             *)
(***************************************************************************)
S(atom) == JStr(<<atom>>)

RecMid == JObj([no |-> S("001/A/NBP/2024"), effectiveDate |-> S("2024-01-02"),
                mid |-> JNum("3", <<"9", "8", "7", "6">>)])

RecBidAsk == JObj([no |-> S("001/C/NBP/2024"),
                   effectiveDate |-> S("2024-01-02"),
                   tradingDate |-> S("2023-12-29"),
                   bid |-> JNum("3", <<"9", "5", "0", "0">>),
                   ask |-> JNum("4", <<"0", "2", "5", "0">>)])

RecBidAsk2 == JObj([no |-> S("002/C/NBP/2024"),
                    effectiveDate |-> S("2024-01-03"),
                    tradingDate |-> S("2024-01-02"),
                    bid |-> JNum("3", <<"9", "6">>),
                    ask |-> JNum("4", <<"0", "4">>)])

\* Rate containers (a JSON object).
RateA == JObj([table |-> S("A"), currency |-> S("dolar"), code |-> S("USD"),
               rates |-> JArr(<<RecMid>>)])

RateC == JObj([table |-> S("c"), currency |-> S("dolar"), code |-> S("USD"),
               rates |-> JArr(<<RecBidAsk2, RecBidAsk>>)])

RateNoRates == JObj([table |-> S("A"), currency |-> S("dolar"),
                     code |-> S("USD"), rates |-> EmptyArr])

RateBare == JObj([rates |-> JArr(<<EmptyObj>>)])

\* Table lists (a JSON array).
QuoteUSD == JObj([currency |-> S("dolar"), code |-> S("USD"),
                  mid |-> JNum("3", <<"9", "8", "7", "6">>)])

QuoteEUR == JObj([currency |-> S("euro"), code |-> S("EUR"),
                  mid |-> JNum("4", <<"3", "2", "1", "5">>)])

QuoteC == JObj([currency |-> S("dolar"), code |-> S("USD"),
                bid |-> JNum("3", <<"9", "5">>),
                ask |-> JNum("4", <<"0", "2", "5">>)])

TableA == JObj([table |-> S("A"), no |-> S("001/A/NBP/2024"),
                effectiveDate |-> S("2024-01-02"),
                rates |-> JArr(<<QuoteUSD, QuoteEUR>>)])

TableC == JObj([table |-> S("C"), no |-> S("001/C/NBP/2024"),
                tradingDate |-> S("2023-12-29"),
                effectiveDate |-> S("2024-01-02"),
                rates |-> JArr(<<QuoteC>>)])

TableNoRates == JObj([table |-> S("A"), no |-> S("002/A/NBP/2024"),
                      effectiveDate |-> S("2024-01-03"),
                      rates |-> EmptyArr])

\* Gold price lists (a JSON array).
Gold1 == JObj([data |-> S("2024-01-02"),
               cena |-> JNum("245", <<"6", "7">>)])

Gold2 == JObj([data |-> S("2024-01-03"),
               cena |-> JNum("245", <<"6", "7", "8", "9">>)])

Gold3 == JObj([data |-> S("2024-01-15"),
               cena |-> JNum("248", <<"5", "0">>)])

Docs == {EmptyObj, EmptyArr,
         RateA, RateC, RateNoRates, RateBare,
         JArr(<<TableA>>), JArr(<<TableC, TableA>>), JArr(<<TableNoRates>>),
         JArr(<<Gold1>>), JArr(<<Gold2, Gold1>>), JArr(<<Gold3>>),
         JArr(<<EmptyObj>>)}

\* The ways a request fails: no response, a response outside 2xx (with a
\* JSON body), a 200 whose body is not JSON.
Failures == {NetworkError, Timeout,
             Outcome("none", 404, TRUE, JObj([error |-> S("Not Found")])),
             Outcome("none", 500, FALSE, None),
             Outcome("none", 200, FALSE, None)}

(***************************************************************************)
(* Inputs.  A profile names the sets the callers and the upstream draw     *)
(* from.                                                                   *)
(***************************************************************************)
GoodDate == <<"2", "0", "2", "4", "-", "0", "1", "-", "1", "5">>

AllTables == {<<"a">>, <<"A">>, <<"b">>, <<"B">>, <<"c">>, <<"C">>,
              <<"x">>, <<"z">>, <<>>, <<"a", "b">>}

AllDates ==
    {<<>>, GoodDate,
     GoodDate \o <<"\n">>,
     GoodDate \o <<"0">>,
     <<"\n">> \o GoodDate,
     <<"0", "1", "-", "1", "5", "-", "2", "0", "2", "4">>,
     <<"2", "0", "2", "4", "/", "0", "1", "/", "1", "5">>,
     <<"1", "5", ".", "0", "1", ".", "2", "0", "2", "4">>,
     <<"2", "0", "2", "4", "-", "1", "-", "1", "5">>,
     <<"a">>, <<"c">>, <<"x">>}

EdgeCounts ==
    ((COUNT_MIN - 1 - CountMargin)..(COUNT_MIN + CountMargin))
    \cup ((COUNT_MAX - CountMargin)..(COUNT_MAX + CountMargin))

MainProfile ==
    [tools |-> Tools,
     codes |-> {<<"u", "s", "d">>, <<"U", "S", "D">>},
     dates |-> AllDates,
     tables |-> AllTables,
     starts |-> {GoodDate, <<"x">>},
     ends |-> {GoodDate, <<>>},
     counts |-> EdgeCounts,
     npos |-> {0, 1, 2},
     outcomes |-> Failures \cup {Ok(d) : d \in Docs}]

\* What the caller supplies for each parameter of the tool.
ArgSpace(P, tool) ==
    LET Uses(p) == \E i \in 1..Len(Params(tool)) : Params(tool)[i] = p
    IN  [code : IF Uses("code") THEN P.codes ELSE {Default("code")},
         date : IF Uses("date") THEN P.dates ELSE {Default("date")},
         table : IF Uses("table") THEN P.tables ELSE {Default("table")},
         start_date : IF Uses("start_date") THEN P.starts
                      ELSE {Default("start_date")},
         end_date : IF Uses("end_date") THEN P.ends
                    ELSE {Default("end_date")},
         count : IF Uses("count") THEN P.counts ELSE {Default("count")}]

(***************************************************************************)
(* State.  calls[c] is the frame of tool call c; net[c] is the connection  *)
(* of the AsyncClient that call opened.                                    *)
(***************************************************************************)
CallIds == 1..MaxCalls

IdleFrame == [pc |-> "idle", tool |-> "", pos |-> <<>>,
              args |-> [p \in ParamNames |-> Default(p)],
              url |-> <<>>, data |-> None, result |-> NoResult]

ClosedConn == [state |-> "closed", url |-> <<>>, outcome |-> NoOutcome,
               gets |-> 0]

Init ==
    /\ calls = [c \in CallIds |-> IdleFrame]
    /\ net = [c \in CallIds |-> ClosedConn]

\* Line 41: client.get(url, ...) sends one GET on the call's connection.
ClientGet(conn, url) ==
    [state |-> "sent", url |-> url, outcome |-> NoOutcome,
     gets |-> conn.gets + 1]

\* Mutant of ResponseFor: one client shared by the calls, a call reading
\* whichever response has arrived.
ResponseFor_shared_client(c) ==
    net[CHOOSE d \in CallIds : net[d].state = "responded"].outcome

\* Line 39: each call reads the response on the connection of its own
\* client.
ResponseFor(c) == net[c].outcome

\* Mutant of AfterGet: a failed GET is sent once more.
AfterGet_retry(frame, conn, o) ==
    IF make_nbp_request(o) = None /\ conn.gets < 2
    THEN [frame |-> frame,
          conn |-> [conn EXCEPT !.state = "sent", !.outcome = NoOutcome,
                                !.gets = conn.gets + 1]]
    ELSE [frame |-> [frame EXCEPT !.pc = "closing",
                                  !.data = make_nbp_request(o)],
          conn |-> conn]

\* Lines 41-45 once the GET has come back: the decoded value or None is
\* what make_nbp_request will return; nothing is sent again.
AfterGet(frame, conn, o) ==
    [frame |-> [frame EXCEPT !.pc = "closing", !.data = make_nbp_request(o)],
     conn |-> conn]

\* A tool is called with k positional arguments and the rest by keyword; it
\* runs to its return or to its await.
Call(c, P) ==
    /\ calls[c].pc = "idle"
    /\ \E tool \in P.tools :
       \E v \in ArgSpace(P, tool) :
       \E k \in P.npos \cap (0..Len(Params(tool))) :
          LET sig == Params(tool)
              pos == [i \in 1..k |-> PosArg(v[sig[i]])]
              kw == [p \in {sig[i] : i \in (k + 1)..Len(sig)} |-> v[p]]
              a == Bind(tool, pos, kw)
              b == Begin(tool, a)
              frame == [IdleFrame EXCEPT !.tool = tool, !.pos = pos,
                                         !.args = a]
          IN  IF b.ret
              THEN /\ calls' = [calls EXCEPT ![c] =
                          [frame EXCEPT !.pc = "done",
                                        !.result = Return(b.text)]]
                   /\ UNCHANGED net
              ELSE /\ calls' = [calls EXCEPT ![c] =
                          [frame EXCEPT !.pc = "awaiting", !.url = b.url]]
                   /\ net' = [net EXCEPT ![c] = ClientGet(net[c], b.url)]

\* The upstream answers the GET of call c, or the GET fails.
Respond(c, P) ==
    /\ net[c].state = "sent"
    /\ \E o \in P.outcomes :
          net' = [net EXCEPT ![c].state = "responded", ![c].outcome = o]
    /\ UNCHANGED calls

\* client.get returns or raises in call c; the value make_nbp_request
\* returns is fixed, and the client is being closed.
Receive(c) ==
    /\ calls[c].pc = "awaiting"
    /\ net[c].state = "responded"
    /\ LET r == AfterGet(calls[c], net[c], ResponseFor(c))
       IN  /\ calls' = [calls EXCEPT ![c] = r.frame]
           /\ net' = [net EXCEPT ![c] = r.conn]

\* make_nbp_request returns to the tool, which renders and returns.
Resume(c) ==
    /\ calls[c].pc = "closing"
    /\ calls' = [calls EXCEPT ![c].pc = "done",
                              ![c].result = Finish(calls[c].tool,
                                                   calls[c].args,
                                                   calls[c].data)]
    /\ net' = [net EXCEPT ![c].state = "closed"]

\* The caller takes the result; the frame and the client are gone.
Deliver(c) ==
    /\ calls[c].pc = "done"
    /\ calls' = [calls EXCEPT ![c] = IdleFrame]
    /\ net' = [net EXCEPT ![c] = ClosedConn]

\* One caller, every input.
Next ==
    \/ Call(1, MainProfile)
    \/ Respond(1, MainProfile)
    \/ Receive(1)
    \/ Resume(1)
    \/ Deliver(1)

Spec == Init /\ [][Next]_vars
\* Two callers at a time, a few inputs.
ConcProfile ==
    [tools |-> {"get_currency_rate", "get_gold_price_last_n"},
     codes |-> {<<"u", "s", "d">>},
     dates |-> {<<>>, GoodDate, <<"x">>},
     tables |-> {<<"a">>, <<"z">>},
     starts |-> {GoodDate},
     ends |-> {GoodDate},
     counts |-> {0, 1},
     npos |-> {0},
     outcomes |-> {Timeout, Ok(RateA), Ok(JArr(<<Gold1>>))}]

NextConc ==
    \E c \in CallIds :
        \/ Call(c, ConcProfile)
        \/ Respond(c, ConcProfile)
        \/ Receive(c)
        \/ Resume(c)
        \/ Deliver(c)

SpecConc == Init /\ [][NextConc]_vars

\* One caller of the last-N tools, every count of the range and around it.
CountProfile ==
    [tools |-> {"get_currency_rate_last_n", "get_gold_price_last_n"},
     codes |-> {<<"u", "s", "d">>},
     dates |-> {<<>>},
     tables |-> {<<"a">>, <<"C">>, <<"x">>},
     starts |-> {GoodDate},
     ends |-> {GoodDate},
     counts |-> (COUNT_MIN - 1 - CountMargin)..(COUNT_MAX + CountMargin),
     npos |-> {0, 2},
     outcomes |-> {Timeout, Ok(RateA), Ok(JArr(<<Gold1>>))}]

NextCounts ==
    \/ Call(1, CountProfile)
    \/ Respond(1, CountProfile)
    \/ Receive(1)
    \/ Resume(1)
    \/ Deliver(1)

SpecCounts == Init /\ [][NextCounts]_vars

(***************************************************************************)
(* Vocabulary of the properties.                                           *)
(***************************************************************************)
\* The table types the tools are to accept: a, b, c in either case.
AcceptedTables == {<<"a">>, <<"A">>, <<"b">>, <<"B">>, <<"c">>, <<"C">>}

\* Four digits, a dash, two digits, a dash, two digits, and nothing else.
IsoShaped(date) ==
    /\ Len(date) = 10
    /\ \A i \in 1..10 :
          IF i \in {5, 8} THEN date[i] = "-" ELSE date[i] \in Digits

InvalidDateMsg(date) ==
    <<"Invalid date format: '">> \o date
    \o <<"'. Expected YYYY-MM-DD (e.g., 2024-01-15)">>

TableTools == {"get_currency_rate", "get_exchange_table",
               "get_currency_rate_history", "get_currency_rate_last_n"}

DateTools == {"get_currency_rate", "get_exchange_table", "get_gold_price"}

CountTools == {"get_currency_rate_last_n", "get_gold_price_last_n"}

CodeTools == {"get_currency_rate", "get_currency_rate_history",
              "get_currency_rate_last_n"}

RangeTools == {"get_currency_rate_history", "get_gold_price_history"}

\* The call has started and not yet been handed back.
Active(c) == calls[c].pc # "idle"

Finished(c) == calls[c].pc = "done"

\* The call returned exactly this text and sent nothing upstream.
RejectedWith(c, msg) ==
    /\ Finished(c)
    /\ calls[c].result = Return(msg)
    /\ net[c].gets = 0
    /\ net[c].state = "closed"

\* The first literal of each tool's absent-result sentences.
UnableHeads(tool) ==
    CASE tool = "get_currency_rate" ->
            {"Unable to fetch exchange rate for ",
             "Unable to fetch current exchange rate for "}
      [] tool = "get_exchange_table" ->
            {"Unable to fetch exchange rate table ",
             "Unable to fetch current exchange rate table "}
      [] tool = "get_currency_rate_history" ->
            {"Unable to fetch historical data for "}
      [] tool = "get_currency_rate_last_n" -> {"Unable to fetch last "}
      [] tool = "get_gold_price" ->
            {"Unable to fetch gold price for ",
             "Unable to fetch current gold price."}
      [] tool = "get_gold_price_history" ->
            {"Unable to fetch gold price history from "}
      [] tool = "get_gold_price_last_n" -> {"Unable to fetch last "}

(***************************************************************************)
(* Properties.                                                             *)
(***************************************************************************)
\* C1: no tool call ever raises: whatever the parameters and whatever the
\* fetch hands back (None, an object, an array, empty or not), the call
\* ends by returning a text.  Fails on the code: get_currency_rate and the
\* two rate-list tools call data.get on a non-empty array.
C1_NeverRaises ==
    \A c \in CallIds : Finished(c) => calls[c].result.kind = "return"

\* C2: in the four tools with a table parameter, a table type outside
\* a, b, c (in either case) ends the call with the invalid-table message
\* and no request is sent; a, b, c, A, B, C are accepted.
C2_InvalidTableRejected ==
    \A c \in CallIds :
        (Active(c) /\ calls[c].tool \in TableTools) =>
            IF calls[c].args.table \in AcceptedTables
            THEN calls[c].result.text # InvalidTableMsg
            ELSE RejectedWith(c, InvalidTableMsg)

C2_Witness ==
    \E c \in CallIds :
        /\ calls[c].tool = "get_currency_rate_history"
        /\ calls[c].args.table = <<"z">>
        /\ RejectedWith(c, InvalidTableMsg)

\* C3: in get_currency_rate, get_exchange_table and get_gold_price a
\* non-empty date that is not exactly dddd-dd-dd is rejected with the
\* message naming it and no request is sent; an empty date is accepted.
\* Fails on the code: a well-formed date followed by a newline passes.
C3_MalformedDateRejected ==
    \A c \in CallIds :
        (/\ Active(c)
         /\ calls[c].tool \in DateTools
         /\ calls[c].tool # "get_gold_price" =>
                calls[c].args.table \in AcceptedTables) =>
            IF Len(calls[c].args.date) = 0 \/ IsoShaped(calls[c].args.date)
            THEN net[c].gets = 1
            ELSE RejectedWith(c, InvalidDateMsg(calls[c].args.date))

\* C4: in the last-N tools (the table being valid) a count below 1 or above
\* 255 ends the call with the count message and no request is sent; every
\* count from 1 to 255 passes and exactly one request is sent.
C4_CountRange ==
    \A c \in CallIds :
        (/\ Active(c)
         /\ calls[c].tool \in CountTools
         /\ calls[c].tool = "get_currency_rate_last_n" =>
                calls[c].args.table \in AcceptedTables) =>
            IF calls[c].args.count < 1 \/ calls[c].args.count > 255
            THEN RejectedWith(c, CountMsg)
            ELSE /\ net[c].gets = 1
                 /\ calls[c].result.text # CountMsg

C4_Witness ==
    \E c \in CallIds :
        /\ calls[c].tool = "get_gold_price_last_n"
        /\ calls[c].args.count = 256
        /\ RejectedWith(c, CountMsg)

\* C5: when the fetch yields None, each tool returns its own "Unable to
\* fetch ..." sentence, and the sentence contains what was queried: the
\* upper-cased code, the date, the start and end dates, the count.
C5_UnableNamesQuery ==
    \A c \in CallIds :
        (Finished(c) /\ net[c].gets = 1 /\ calls[c].data = None) =>
            LET f == calls[c]
                t == f.result.text
                Names(tools, id) == f.tool \in tools => Contains(t, id)
            IN  /\ f.result.kind = "return"
                /\ t[1] \in UnableHeads(f.tool)
                /\ Names(CodeTools, upper(f.args.code))
                /\ Names(DateTools, f.args.date)
                /\ Names(RangeTools, f.args.start_date)
                /\ Names(RangeTools, f.args.end_date)
                /\ Names(CountTools, IntStr(f.args.count))

C5_Witness ==
    \E c \in CallIds :
        /\ Finished(c)
        /\ calls[c].tool = "get_currency_rate_history"
        /\ calls[c].data = None
        /\ net[c].outcome = Timeout
        /\ Len(calls[c].args.end_date) > 0
\* The first literal of each tool's empty-result sentence; get_exchange_table
\* and get_gold_price have none.
NoDataHeads(tool) ==
    CASE tool = "get_currency_rate" ->
            {"No exchange rate data available for "}
      [] tool = "get_currency_rate_history" ->
            {"No historical data available for "}
      [] tool = "get_currency_rate_last_n" ->
            {"No rate data available for "}
      [] tool = "get_gold_price_history" ->
            {"No gold price data available for the specified date range."}
      [] tool = "get_gold_price_last_n" ->
            {"No gold price data available."}
      [] OTHER -> {}

AllNoDataHeads == UNION {NoDataHeads(tool) : tool \in Tools}

\* The fetch of call c succeeded and yielded no records: an empty array at
\* an array endpoint, an object with an empty rates list at a rate endpoint.
YieldedNoRecords(c) ==
    /\ Finished(c)
    /\ net[c].gets = 1
    /\ net[c].outcome = Ok(calls[c].data)
    /\ IF calls[c].tool \in CodeTools
       THEN /\ calls[c].data.kind = "obj"
            /\ Has(calls[c].data, "rates")
            /\ calls[c].data.v["rates"] = EmptyArr
       ELSE calls[c].data = EmptyArr

\* C6 as stated: every tool answers a fetch without records with a "No ...
\* data available" sentence that is not its absent-result sentence.  Fails
\* on the code: get_exchange_table and get_gold_price answer an empty array
\* with their "Unable to fetch ..." sentence.
C6_NoDataEveryTool ==
    \A c \in CallIds :
        YieldedNoRecords(c) =>
            /\ calls[c].result.kind = "return"
            /\ calls[c].result.text[1] \in AllNoDataHeads
            /\ calls[c].result.text[1] \notin UnableHeads(calls[c].tool)

\* C6 as amended: the three rate tools and the gold history and last-N
\* tools answer a fetch without records with their own "No ... data
\* available" sentence, which is not their absent-result sentence;
\* get_exchange_table and get_gold_price answer an empty array with their
\* "Unable to fetch ..." sentence.
C6_NoDataSentence ==
    \A c \in CallIds :
        YieldedNoRecords(c) =>
            /\ calls[c].result.kind = "return"
            /\ IF calls[c].tool \in {"get_exchange_table", "get_gold_price"}
               THEN calls[c].result.text[1] \in UnableHeads(calls[c].tool)
               ELSE /\ calls[c].result.text[1] \in NoDataHeads(calls[c].tool)
                    /\ calls[c].result.text[1]
                          \notin UnableHeads(calls[c].tool)

C6_Witness ==
    \E c \in CallIds :
        /\ YieldedNoRecords(c)
        /\ calls[c].tool = "get_gold_price_history"
        /\ calls[c].result.text[1] \in NoDataHeads("get_gold_price_history")

\* C7: get_currency_rate(code, x) and get_exchange_table(x), x passed
\* positionally, take x as the table type: x outside a, b, c gives the
\* invalid-table message, x among them leads to the fetch.  Fails on the
\* code: the parameter after code (the first of get_exchange_table) is date.
C7_PositionalIsTable ==
    \A c \in CallIds :
        LET f == calls[c]
            n == IF f.tool = "get_currency_rate" THEN 2 ELSE 1
        IN  (/\ Finished(c)
             /\ f.tool \in {"get_currency_rate", "get_exchange_table"}
             /\ Len(f.pos) = n
             /\ f.args.table = Default("table")) =>
                IF f.pos[n].v \in AcceptedTables
                THEN net[c].gets = 1
                ELSE f.result = Return(InvalidTableMsg)

\* What the code validates for a tool, in the terms of the code.
PassesValidation(tool, a) ==
    /\ tool \in TableTools => lower(a.table) \in TABLES
    /\ tool \in DateTools => Len(validate_date(a.date)) = 0
    /\ tool \in CountTools => (a.count >= 1 /\ a.count <= 255)

IsFailure(o) ==
    \/ o.err \in {"network", "timeout"}
    \/ o.status < 200
    \/ o.status > 299
    \/ ~o.wellformed

\* C8: a call sends at most one GET: exactly one when every validation of
\* the call passes, none when one fails; a GET is sent only by a call whose
\* validations all passed, and a failed GET is not sent again.
C8_OneRequest ==
    \A c \in CallIds :
        /\ net[c].gets <= 1
        /\ Active(c) =>
              net[c].gets =
                 (IF PassesValidation(calls[c].tool, calls[c].args)
                  THEN 1 ELSE 0)
        /\ net[c].state \in {"sent", "responded"} =>
              calls[c].pc \in {"awaiting", "closing"}

C8_Witness ==
    \E c \in CallIds :
        /\ Finished(c)
        /\ net[c].gets = 1
        /\ net[c].outcome = Timeout
        /\ calls[c].data = None

\* C9: once the GET of a call has come back, what make_nbp_request returns
\* is None for every failure (network error, timeout, status outside 2xx,
\* body that is not JSON), so the cause cannot be told from it, and the
\* decoded document itself on success.
C9_FailuresCollapse ==
    \A c \in CallIds :
        calls[c].pc \in {"closing", "done"} /\ net[c].gets = 1 =>
            IF IsFailure(net[c].outcome)
            THEN calls[c].data = None
            ELSE calls[c].data = net[c].outcome.doc

C9_Witness ==
    \E c \in CallIds :
        /\ calls[c].pc = "closing"
        /\ net[c].outcome.status = 404
        /\ net[c].outcome.wellformed
        /\ calls[c].data = None

\* C10: calls do not interfere: two finished calls of the same tool with
\* the same parameters whose own requests got the same response (or that
\* both sent none) hold the same result, however their steps interleaved.
C10_Independent ==
    \A c, d \in CallIds :
        (/\ Finished(c)
         /\ Finished(d)
         /\ calls[c].tool = calls[d].tool
         /\ calls[c].args = calls[d].args
         /\ net[c].gets = net[d].gets
         /\ net[c].outcome = net[d].outcome) =>
            calls[c].result = calls[d].result

C10_Witness ==
    \E c, d \in CallIds :
        /\ c # d
        /\ Finished(c)
        /\ Finished(d)
        /\ calls[c].tool = "get_currency_rate"
        /\ calls[c].args = calls[d].args
        /\ calls[d].tool = calls[c].tool
        /\ net[c].outcome = Ok(RateA)
        /\ net[d].outcome = Ok(RateA)
        /\ calls[c].result = calls[d].result

\* The path a validated call is to request, under the API base: the
\* endpoint, the lower-cased table and the upper-cased code where the tool
\* has them, then the one shape of the tool: nothing or {date}/ for the
\* dated tools, {start}/{end}/ for the range tools, last/{count}/ for the
\* last-N tools.
ExpectedPath(tool, a) ==
    LET endpoint == IF tool \in CodeTools THEN <<"/exchangerates/rates/">>
                    ELSE IF tool = "get_exchange_table"
                         THEN <<"/exchangerates/tables/">>
                    ELSE <<"/cenyzlota/">>
        tableSeg == IF tool \in TableTools THEN lower(a.table) \o <<"/">>
                    ELSE <<>>
        codeSeg == IF tool \in CodeTools THEN upper(a.code) \o <<"/">>
                   ELSE <<>>
        shape == IF tool \in DateTools
                 THEN (IF Len(a.date) = 0 THEN <<>> ELSE a.date \o <<"/">>)
                 ELSE IF tool \in RangeTools
                      THEN a.start_date \o <<"/">> \o a.end_date \o <<"/">>
                 ELSE <<"last/">> \o IntStr(a.count) \o <<"/">>
    IN  endpoint \o tableSeg \o codeSeg \o shape

\* The same text whatever the cut into atoms: "/last/" is "/", "last/".
Glue(url) ==
    LET Fix(i) == IF url[i] = "/last/" THEN <<"/", "last/">>
                  ELSE IF url[i] = "/cenyzlota/last/"
                       THEN <<"/cenyzlota/", "last/">>
                  ELSE <<url[i]>>
        F[i \in 0..Len(url)] == IF i = 0 THEN <<>> ELSE F[i - 1] \o Fix(i)
    IN  F[Len(url)]

\* C11: every call that sent its request sent it to the one URL of its
\* tool's shape: the current path when the optional date is empty, the
\* path ending in /{date}/ otherwise, /{start}/{end}/ for the history
\* tools, /last/{count}/ for the last-N tools, with the table lower-cased
\* and the code upper-cased.
C11_UrlShape ==
    \A c \in CallIds :
        (Active(c) /\ net[c].gets = 1) =>
            /\ Glue(net[c].url)
                  = <<NBP_API_BASE>> \o ExpectedPath(calls[c].tool,
                                                     calls[c].args)
            /\ calls[c].url = net[c].url

C11_Witness ==
    \E c \in CallIds :
        /\ calls[c].pc = "awaiting"
        /\ calls[c].tool = "get_exchange_table"
        /\ calls[c].args.table = <<"B">>
        /\ calls[c].args.date = GoodDate
        /\ net[c].url = <<NBP_API_BASE, "/exchangerates/tables/", "b", "/">>
                        \o GoodDate \o <<"/">>

\* Two callers of the rate tools, the code in two spellings.
CaseProfile ==
    [tools |-> CodeTools,
     codes |-> {<<"u", "s", "d">>, <<"U", "s", "D">>},
     dates |-> {<<>>},
     tables |-> {<<"a">>},
     starts |-> {GoodDate},
     ends |-> {GoodDate},
     counts |-> {1},
     npos |-> {0},
     outcomes |-> {Timeout, Ok(RateA), Ok(RateNoRates)}]

NextCase ==
    \E c \in CallIds :
        \/ Call(c, CaseProfile)
        \/ Respond(c, CaseProfile)
        \/ Receive(c)
        \/ Resume(c)
        \/ Deliver(c)

SpecCase == Init /\ [][NextCase]_vars

\* The two texts differ at most in the case of their letters.
SameLetters(x, y) ==
    /\ Len(x) = Len(y)
    /\ \A i \in 1..Len(x) : LowerChar(x[i]) = LowerChar(y[i])

\* Calls c and d are of the same rate tool, with the same parameters but
\* for the case of the letters of the code.
SameButCase(c, d) ==
    /\ calls[c].tool \in CodeTools
    /\ calls[c].tool = calls[d].tool
    /\ SameLetters(calls[c].args.code, calls[d].args.code)
    /\ [calls[c].args EXCEPT !.code = <<>>]
          = [calls[d].args EXCEPT !.code = <<>>]

\* C12: currency codes are case-insensitive: two calls of a rate tool that
\* differ only in the case of the code request the same URL and, their
\* requests having got the same response, return the same text.
C12_CodeCaseInsensitive ==
    \A c, d \in CallIds :
        SameButCase(c, d) =>
            /\ (net[c].gets = 1 /\ net[d].gets = 1) => net[c].url = net[d].url
            /\ (/\ Finished(c)
                /\ Finished(d)
                /\ net[c].outcome = net[d].outcome) =>
                   calls[c].result = calls[d].result

C12_Witness ==
    \E c, d \in CallIds :
        /\ SameButCase(c, d)
        /\ calls[c].args.code # calls[d].args.code
        /\ calls[c].tool = "get_currency_rate_last_n"
        /\ Finished(c)
        /\ Finished(d)
        /\ net[c].outcome = Timeout
        /\ net[d].outcome = Timeout
        /\ Contains(calls[c].result.text, <<"U", "S", "D">>)

\* The lines of a text: what text.split("\n") yields.
Lines(text) ==
    LET P == {i \in 1..Len(text) : text[i] = "\n"}
        n == Cardinality(P)
        Nth(k) == CHOOSE i \in P : Cardinality({j \in P : j < i}) = k - 1
        First(k) == IF k = 1 THEN 1 ELSE Nth(k - 1) + 1
        Last(k) == IF k = n + 1 THEN Len(text) ELSE Nth(k) - 1
    IN  [k \in 1..(n + 1) |-> SubSeq(text, First(k), Last(k))]

RateLabels == <<"Mid Rate: ", "Bid Rate: ", "Ask Rate: ">>

RateKeys == <<"mid", "bid", "ask">>

\* The lines of a text that start with this label.
LinesOf(text, label) ==
    SelectSeq(Lines(text), LAMBDA l : Len(l) > 0 /\ l[1] = label)

\* The call rendered the first table of a decoded table response.
RenderedTable(c) ==
    /\ Finished(c)
    /\ calls[c].tool = "get_exchange_table"
    /\ calls[c].result.kind = "return"
    /\ calls[c].data.kind = "arr"
    /\ Len(calls[c].data.v) > 0

\* C13: in a table response every embedded rate is rendered by the rules
\* of a single-rate response: a line for each of mid, bid, ask that is
\* present, ending in " PLN", and no line for an absent one.  Fails on the
\* code: format_rate renders the number bare.
C13_TableRatesSuffixed ==
    \A c \in CallIds :
        RenderedTable(c) =>
            LET table == calls[c].data.v[1]
                rates == IF Has(table, "rates") THEN Items(table.v["rates"])
                         ELSE <<>>
                text == calls[c].result.text
            IN  \A k \in 1..3 :
                    LET have == SelectSeq(rates,
                                    LAMBDA r : Has(r, RateKeys[k]))
                        lines == LinesOf(text, RateLabels[k])
                    IN  /\ Len(lines) = Len(have)
                        /\ \A i \in 1..Len(lines) :
                              lines[i] = <<RateLabels[k]>>
                                  \o PyStr(have[i].v[RateKeys[k]])
                                  \o <<" PLN">>

\* The call rendered the first record of a decoded single-rate response.
RenderedRate(c) ==
    /\ Finished(c)
    /\ calls[c].tool = "get_currency_rate"
    /\ calls[c].result.kind = "return"
    /\ calls[c].data.kind = "obj"
    /\ Has(calls[c].data, "rates")
    /\ Truthy(calls[c].data.v["rates"])

OptLabels == <<"Trading Date: ", "Mid Rate: ", "Bid Rate: ", "Ask Rate: ">>

OptKeys == <<"tradingDate", "mid", "bid", "ask">>

\* The labels of the optional lines a record gives rise to, in order.
RECURSIVE LabelsFor(_, _)
LabelsFor(rec, k) ==
    IF k > Len(OptKeys) THEN <<>>
    ELSE (IF Has(rec, OptKeys[k]) THEN <<OptLabels[k]>> ELSE <<>>)
         \o LabelsFor(rec, k + 1)

\* C14: a successful get_currency_rate response is the lines Currency,
\* Code, Table (upper-cased), Number, Effective Date, then Trading Date,
\* Mid Rate, Bid Rate, Ask Rate in that order, each of the four only for a
\* field of the rate record that is present, each rate ending in " PLN";
\* an absent one of them gives no line.
C14_RateLines ==
    \A c \in CallIds :
        RenderedRate(c) =>
            LET data == calls[c].data
                rec == Items(data.v["rates"])[1]
                lines == Lines(calls[c].result.text)
                opt == LabelsFor(rec, 1)
            IN  /\ Len(lines) = 5 + Len(opt)
                /\ lines[1][1] = "Currency: "
                /\ lines[2][1] = "Code: "
                /\ lines[3][1] = "Table: "
                /\ Has(data, "table") =>
                      SubSeq(lines[3], 2, Len(lines[3]))
                          = [i \in 1..Len(data.v["table"].v) |->
                                UpperChar(data.v["table"].v[i])]
                /\ lines[4][1] = "Number: "
                /\ lines[5][1] = "Effective Date: "
                /\ \A i \in 1..Len(opt) :
                      LET l == lines[5 + i]
                      IN  /\ l[1] = opt[i]
                          /\ Len(l) > 1
                          /\ l[2] \notin {"Unknown", "None"}
                          /\ (opt[i] # "Trading Date: ") =>
                                l[Len(l)] = " PLN"

C14_Witness ==
    \E c \in CallIds :
        /\ RenderedRate(c)
        /\ calls[c].data = RateC
        /\ Len(Lines(calls[c].result.text)) = 8
        /\ LinesOf(calls[c].result.text, "Mid Rate: ") = <<>>
        /\ LinesOf(calls[c].result.text, "Ask Rate: ")
              = << <<"Ask Rate: ", "4", ".", "0", "4", " PLN">> >>

(***************************************************************************)
(* The formatting helpers on their own: the initial states hold a helper   *)
(* and its argument, the one action applies the helper.                    *)
(***************************************************************************)
MaxRates == 2

Helpers == {"format_rate", "format_exchange_table", "format_gold_price"}

\* The object with these of the fields of full.
Restrict(full, keys) == JObj([k \in keys |-> full.v[k]])

FullRate == JObj([currency |-> S("funt szterling"), code |-> S("GBP"),
                  country |-> S("Wielka Brytania"),
                  mid |-> JNum("5", <<"1", "2", "3", "4">>),
                  bid |-> JNum("5", <<"1", "0", "0", "0">>),
                  ask |-> JNum("5", <<"2", "0", "0", "0">>)])

RateInputs == {Restrict(FullRate, K) : K \in SUBSET DOMAIN FullRate.v}

Quotes == {QuoteUSD, QuoteEUR, QuoteC}

RatesLists == UNION {[1..n -> Quotes] : n \in 0..MaxRates}

TableInputs ==
    {Restrict(TableC, K) : K \in SUBSET DOMAIN TableC.v}
    \cup {[Restrict(TableC, K \cup {"rates"}) EXCEPT !.v["rates"] = JArr(rs)] :
             K \in SUBSET (DOMAIN TableC.v \ {"rates"}), rs \in RatesLists}

GoldInputs ==
    {Restrict(g, K) : g \in {Gold1, Gold2}, K \in SUBSET {"data", "cena"}}
    \cup {JObj([data |-> S("2024-01-04"), cena |-> JNum("248", <<"5", "0">>)]),
          JObj([data |-> S("2024-01-05"), cena |-> JNum("250", <<"0", "0">>)])}

HelperInputs(helper) ==
    CASE helper = "format_rate" -> RateInputs
      [] helper = "format_exchange_table" -> TableInputs
      [] helper = "format_gold_price" -> GoldInputs

Helper(helper, x) ==
    CASE helper = "format_rate" -> format_rate(x)
      [] helper = "format_exchange_table" -> format_exchange_table(x)
      [] helper = "format_gold_price" -> format_gold_price(x)

InitFormat ==
    /\ net = [c \in CallIds |-> ClosedConn]
    /\ \E helper \in Helpers :
       \E x \in HelperInputs(helper) :
          calls = [c \in CallIds |->
                      IF c = 1
                      THEN [IdleFrame EXCEPT !.pc = "input", !.tool = helper,
                                             !.data = x]
                      ELSE IdleFrame]

\* The helper is applied to its argument and returns.
Format(c) ==
    /\ calls[c].pc = "input"
    /\ calls' = [calls EXCEPT ![c].pc = "done",
                              ![c].result = Helper(calls[c].tool,
                                                   calls[c].data)]
    /\ UNCHANGED net

NextFormat == \E c \in CallIds : Format(c)

SpecFormat == InitFormat /\ [][NextFormat]_vars

\* Helper h has returned a text in frame c.
Formatted(c, h) ==
    /\ Finished(c)
    /\ calls[c].tool = h
    /\ calls[c].result.kind = "return"

\* C15: format_rate emits a "Mid Rate:" line if and only if the rate has
\* a mid field, a "Bid Rate:" line if and only if it has bid, an
\* "Ask Rate:" line if and only if it has ask.
C15_RateLineIffField ==
    \A c \in CallIds :
        Formatted(c, "format_rate") =>
            \A k \in 1..3 :
                Len(LinesOf(calls[c].result.text, RateLabels[k]))
                    = IF Has(calls[c].data, RateKeys[k]) THEN 1 ELSE 0

C15_Witness ==
    \E c \in CallIds :
        /\ Formatted(c, "format_rate")
        /\ DOMAIN calls[c].data.v = {"bid", "ask"}
        /\ Lines(calls[c].result.text)
              = << <<"Currency: ", "Unknown">>, <<"Code: ", "Unknown">>,
                   <<"Bid Rate: ", "5", ".", "1">>,
                   <<"Ask Rate: ", "5", ".", "2">> >>

\* The positions of the lines of a text that start with this label.
PositionsOf(lines, label) ==
    {i \in 1..Len(lines) : Len(lines[i]) > 0 /\ lines[i][1] = label}

\* The k-th smallest member of a finite set of numbers.
Kth(P, k) == CHOOSE i \in P : Cardinality({j \in P : j < i}) = k - 1

\* C16: format_exchange_table renders the header lines Table, Number,
\* Trading Date if there is one, Effective Date, in that order, and the
\* "Rates:" line; then one "Currency: ..." block per entry of the rates
\* list, in the list's order, each after a blank line: n rates give n
\* blocks, no rates give the header and the "Rates:" line only.
C16_TableBlocks ==
    \A c \in CallIds :
        Formatted(c, "format_exchange_table") =>
            LET table == calls[c].data
                rates == IF Has(table, "rates") THEN Items(table.v["rates"])
                         ELSE <<>>
                lines == Lines(calls[c].result.text)
                t == IF Has(table, "tradingDate") THEN 1 ELSE 0
                blocks == PositionsOf(lines, "Currency: ")
                blanks == {i \in 1..Len(lines) : lines[i] = <<>>}
            IN  /\ lines[1][1] = "Table: "
                /\ lines[2][1] = "Number: "
                /\ t = 1 => lines[3][1] = "Trading Date: "
                /\ PositionsOf(lines, "Trading Date: ") = {3} \cap {3 * t}
                /\ lines[3 + t][1] = "Effective Date: "
                /\ lines[4 + t] = <<>>
                /\ lines[5 + t] = <<"Rates:">>
                /\ Cardinality(blocks) = Len(rates)
                /\ Cardinality(blanks) = 1 + Len(rates)
                /\ Len(rates) = 0 => Len(lines) = 5 + t
                /\ \A k \in 1..Len(rates) :
                      LET p == Kth(blocks, k)
                      IN  /\ lines[p - 1] = <<>>
                          /\ lines[p] = <<"Currency: ">>
                                           \o rates[k].v["currency"].v
                          /\ lines[p + 1] = <<"Code: ">> \o rates[k].v["code"].v
                          /\ Has(rates[k], "mid") <=>
                                (p + 2 <= Len(lines)
                                 /\ lines[p + 2][1] = "Mid Rate: ")

C16_Witness ==
    \E c \in CallIds :
        /\ Formatted(c, "format_exchange_table")
        /\ Has(calls[c].data, "rates")
        /\ calls[c].data.v["rates"] = JArr(<<QuoteEUR, QuoteUSD>>)
        /\ LET lines == Lines(calls[c].result.text)
               blocks == PositionsOf(lines, "Currency: ")
           IN  /\ Cardinality(blocks) = 2
               /\ lines[Kth(blocks, 1)] = <<"Currency: ", "euro">>
               /\ lines[Kth(blocks, 2)] = <<"Currency: ", "dolar">>

ListTools == {"get_currency_rate_history", "get_currency_rate_last_n"}

\* The call rendered the records of a decoded rate response as a list.
RenderedList(c) ==
    /\ Finished(c)
    /\ calls[c].tool \in ListTools
    /\ calls[c].result.kind = "return"
    /\ calls[c].data.kind = "obj"
    /\ Has(calls[c].data, "rates")
    /\ calls[c].data.v["rates"].kind = "arr"
    /\ Truthy(calls[c].data.v["rates"])

\* The count line of a list of n records.
CountLine(tool, n) ==
    IF tool = "get_currency_rate_history"
    THEN <<"Historical Rates (">> \o IntStr(n) \o <<" entries):">>
    ELSE <<"Last ">> \o IntStr(n) \o <<" Rates:">>

\* C17: the history and last-N tools render a non-empty rates list as the
\* header (Currency, Code, upper-cased Table, a count line) and exactly
\* one " | "-joined line per upstream record, in upstream order; a line
\* starts with "Date: " and has Trading Date, Mid Rate, Bid Rate, Ask Rate
\* entries only for the fields of its record; the count is the number of
\* records received, not the count asked for.
C17_ListLines ==
    \A c \in CallIds :
        RenderedList(c) =>
            LET data == calls[c].data
                rates == data.v["rates"].v
                n == Len(rates)
                lines == Lines(calls[c].result.text)
            IN  /\ Len(lines) = 6 + n
                /\ lines[1][1] = "Currency: "
                /\ lines[2][1] = "Code: "
                /\ lines[3][1] = "Table: "
                /\ Has(data, "table") =>
                      SubSeq(lines[3], 2, Len(lines[3]))
                          = [i \in 1..Len(data.v["table"].v) |->
                                UpperChar(data.v["table"].v[i])]
                /\ lines[4] = <<>>
                /\ lines[5] = CountLine(calls[c].tool, n)
                /\ lines[6] = <<>>
                /\ \A k \in 1..n :
                      LET l == lines[6 + k]
                          labels == SelectSeq(l, LAMBDA x :
                                       \E i \in 1..4 : x = OptLabels[i])
                          bars == SelectSeq(l, LAMBDA x : x = " | ")
                      IN  /\ l[1] = "Date: "
                          /\ Has(rates[k], "effectiveDate") =>
                                l[2] = rates[k].v["effectiveDate"].v[1]
                          /\ labels = LabelsFor(rates[k], 1)
                          /\ Len(bars) = Len(labels)

C17_Witness ==
    \E c \in CallIds :
        /\ RenderedList(c)
        /\ calls[c].tool = "get_currency_rate_last_n"
        /\ calls[c].args.count = 3
        /\ calls[c].data = RateC
        /\ LET lines == Lines(calls[c].result.text)
           IN  /\ lines[5] = <<"Last ", "2", " Rates:">>
               /\ lines[7][2] = "2024-01-03"
               /\ lines[8][2] = "2024-01-02"

GoldTools == {"get_gold_price", "get_gold_price_history",
              "get_gold_price_last_n"}

\* The call rendered the records of a decoded gold price response.
RenderedGold(c) ==
    /\ Finished(c)
    /\ calls[c].tool \in GoldTools
    /\ calls[c].result.kind = "return"
    /\ calls[c].data.kind = "arr"
    /\ Len(calls[c].data.v) > 0

\* The header lines of a gold list of n records.
GoldHeader(tool, n) ==
    CASE tool = "get_gold_price" -> <<>>
      [] tool = "get_gold_price_history" ->
            << <<"Gold Price History (">> \o IntStr(n) \o <<" entries):">>,
               <<>> >>
      [] tool = "get_gold_price_last_n" ->
            << <<"Last ">> \o IntStr(n) \o <<" Gold Prices:">>, <<>> >>

\* The digits are those of the number: the same integer part and the same
\* fraction, neither cut nor padded with zeros.
Denotes(digits, num) ==
    /\ Len(digits) >= 3
    /\ digits[1] = num.ip
    /\ digits[2] = "."
    /\ LET f == SubSeq(digits, 3, Len(digits))
       IN  /\ StripZeros(f) = StripZeros(num.frac)
           /\ Len(f) > 1 => f[Len(f)] # "0"

\* C18: a gold price record is rendered as "Date: D" and "Price: P PLN/g"
\* on two lines, P being the price as received, not rounded, cut or
\* padded; the gold history and last-N tools render one such pair per
\* record, in upstream order, under a header whose count is the number of
\* records.
C18_GoldLines ==
    \A c \in CallIds :
        RenderedGold(c) =>
            LET tool == calls[c].tool
                recs == IF tool = "get_gold_price"
                        THEN <<calls[c].data.v[1]>>
                        ELSE calls[c].data.v
                head == GoldHeader(tool, Len(recs))
                lines == Lines(calls[c].result.text)
            IN  /\ Len(lines) = Len(head) + 2 * Len(recs)
                /\ SubSeq(lines, 1, Len(head)) = head
                /\ \A k \in 1..Len(recs) :
                      LET d == lines[Len(head) + 2 * k - 1]
                          p == lines[Len(head) + 2 * k]
                      IN  /\ d[1] = "Date: "
                          /\ Has(recs[k], "data") =>
                                d = <<"Date: ">> \o recs[k].v["data"].v
                          /\ p[1] = "Price: "
                          /\ p[Len(p)] = " PLN/g"
                          /\ Has(recs[k], "cena") =>
                                Denotes(SubSeq(p, 2, Len(p) - 1),
                                        recs[k].v["cena"].v)

C18_Witness ==
    \E c \in CallIds :
        /\ RenderedGold(c)
        /\ calls[c].tool = "get_gold_price_history"
        /\ calls[c].data = JArr(<<Gold2, Gold1>>)
        /\ Lines(calls[c].result.text)
              = << <<"Gold Price History (", "2", " entries):">>, <<>>,
                   <<"Date: ", "2024-01-03">>,
                   <<"Price: ", "245", ".", "6", "7", "8", "9", " PLN/g">>,
                   <<"Date: ", "2024-01-02">>,
                   <<"Price: ", "245", ".", "6", "7", " PLN/g">> >>

\* Two callers of the tools that render one element of an array.
EmptyProfile ==
    [tools |-> {"get_gold_price", "get_exchange_table"},
     codes |-> {<<"u", "s", "d">>},
     dates |-> {<<>>, GoodDate},
     tables |-> {<<"a">>},
     starts |-> {GoodDate},
     ends |-> {GoodDate},
     counts |-> {1},
     npos |-> {0},
     outcomes |-> {Timeout, Ok(EmptyArr), Ok(JArr(<<TableA>>)),
                   Ok(JArr(<<Gold1>>))}]

NextEmpty ==
    \E c \in CallIds :
        \/ Call(c, EmptyProfile)
        \/ Respond(c, EmptyProfile)
        \/ Receive(c)
        \/ Resume(c)
        \/ Deliver(c)

SpecEmpty == Init /\ [][NextEmpty]_vars

\* C19: get_gold_price and get_exchange_table treat an empty array like an
\* absent result: a call whose fetch gave [] returns the "Unable to
\* fetch ..." sentence, with the date when one was given, that the same
\* call returns when its fetch gives None.
C19_EmptyLikeAbsent ==
    \A c, d \in CallIds :
        (/\ Finished(c)
         /\ Finished(d)
         /\ calls[c].tool \in {"get_gold_price", "get_exchange_table"}
         /\ calls[d].tool = calls[c].tool
         /\ calls[d].args = calls[c].args
         /\ net[c].outcome = Ok(EmptyArr)
         /\ net[d].outcome \in Failures) =>
            /\ calls[c].data = EmptyArr
            /\ calls[d].data = None
            /\ calls[c].result = calls[d].result
            /\ calls[c].result.kind = "return"
            /\ calls[c].result.text[1] \in UnableHeads(calls[c].tool)
            /\ Contains(calls[c].result.text, calls[c].args.date)

C19_Witness ==
    \E c, d \in CallIds :
        /\ Finished(c)
        /\ Finished(d)
        /\ calls[c].tool = "get_gold_price"
        /\ calls[d].tool = "get_gold_price"
        /\ calls[c].args.date = GoodDate
        /\ calls[d].args.date = GoodDate
        /\ net[c].outcome = Ok(EmptyArr)
        /\ net[d].outcome = Timeout
        /\ calls[c].result.text[1] = "Unable to fetch gold price for "
        /\ calls[d].result = calls[c].result

\* C20: the range tools validate no date: whatever start_date and end_date
\* are (not of the form YYYY-MM-DD, empty), a call with a valid table
\* sends one request whose URL holds both strings as given, and never
\* returns the invalid-date message.
C20_RangeDatesUnchecked ==
    \A c \in CallIds :
        (/\ Active(c)
         /\ calls[c].tool \in RangeTools
         /\ calls[c].tool \in TableTools =>
               calls[c].args.table \in AcceptedTables) =>
            /\ net[c].gets = 1
            /\ LET url == net[c].url
                   range == calls[c].args.start_date \o <<"/">>
                            \o calls[c].args.end_date \o <<"/">>
                   n == Len(url) - Len(range)
               IN  /\ n >= 1
                   /\ SubSeq(url, n + 1, Len(url)) = range
                   /\ url[n] \in {"/", "/cenyzlota/"}
            /\ Finished(c) =>
                  ~Contains(calls[c].result.text, <<"Invalid date format: '">>)

C20_Witness ==
    \E c \in CallIds :
        /\ Finished(c)
        /\ calls[c].tool = "get_gold_price_history"
        /\ calls[c].args.start_date = <<"x">>
        /\ calls[c].args.end_date = <<>>
        /\ net[c].gets = 1
        /\ net[c].url = <<NBP_API_BASE, "/cenyzlota/", "x", "/", "/">>
        /\ calls[c].result.kind = "return"

\* The call was made with an invalid table type and, besides, with a
\* malformed date (a tool that takes a date) or a count out of range
\* (get_currency_rate_last_n).
TwiceInvalid(c) ==
    /\ Active(c)
    /\ calls[c].args.table \notin AcceptedTables
    /\ \/ /\ calls[c].tool \in {"get_currency_rate", "get_exchange_table"}
          /\ Len(calls[c].args.date) > 0
          /\ ~IsoShaped(calls[c].args.date)
       \/ /\ calls[c].tool = "get_currency_rate_last_n"
          /\ (calls[c].args.count < COUNT_MIN \/ calls[c].args.count > COUNT_MAX)

\* C21: the checks run in a fixed order and the first failure decides the
\* message: the table type is checked before the date in get_currency_rate
\* and get_exchange_table and before the count in
\* get_currency_rate_last_n, so a call with an invalid table and an
\* invalid date or count returns the invalid-table message, never the date
\* or count message.
C21_TableCheckedFirst ==
    \A c \in CallIds :
        TwiceInvalid(c) =>
            /\ Finished(c)
            /\ net[c].gets = 0
            /\ calls[c].result = Return(InvalidTableMsg)
            /\ calls[c].result.text # CountMsg
            /\ calls[c].result.text # InvalidDateMsg(calls[c].args.date)

C21_Witness ==
    \E c \in CallIds :
        /\ TwiceInvalid(c)
        /\ calls[c].tool = "get_currency_rate"
        /\ calls[c].args.table = <<"z">>
        /\ calls[c].args.date = <<"x">>
        /\ calls[c].result = Return(InvalidTableMsg)

\* The line a formatter writes for a descriptive field that is missing.
UnknownLine(label, suffix) == <<label, "Unknown">> \o suffix

\* C22: the formatters put "Unknown" in the place of a missing
\* descriptive field and do not fail: format_rate writes
\* "Currency: Unknown" and "Code: Unknown", format_exchange_table
\* "Table: Unknown", "Number: Unknown" and "Effective Date: Unknown",
\* format_gold_price "Date: Unknown" and "Price: Unknown PLN/g", for every
\* object without the key.
C22_UnknownForMissing ==
    \A c \in CallIds :
        (Finished(c) /\ calls[c].tool \in Helpers) =>
            LET x == calls[c].data
                h == calls[c].tool
                lines == Lines(calls[c].result.text)
                t == IF Has(x, "tradingDate") THEN 1 ELSE 0
                Missing(helper, key, i, label, suffix) ==
                    (h = helper /\ ~Has(x, key)) =>
                        lines[i] = UnknownLine(label, suffix)
            IN  /\ calls[c].result.kind = "return"
                /\ Missing("format_rate", "currency", 1, "Currency: ", <<>>)
                /\ Missing("format_rate", "code", 2, "Code: ", <<>>)
                /\ Missing("format_exchange_table", "table", 1, "Table: ",
                           <<>>)
                /\ Missing("format_exchange_table", "no", 2, "Number: ", <<>>)
                /\ Missing("format_exchange_table", "effectiveDate", 3 + t,
                           "Effective Date: ", <<>>)
                /\ Missing("format_gold_price", "data", 1, "Date: ", <<>>)
                /\ Missing("format_gold_price", "cena", 2, "Price: ",
                           <<" PLN/g">>)

C22_Witness ==
    \E c \in CallIds :
        /\ Formatted(c, "format_gold_price")
        /\ calls[c].data = EmptyObj
        /\ Lines(calls[c].result.text)
              = << <<"Date: ", "Unknown">>,
                   <<"Price: ", "Unknown", " PLN/g">> >>

SingleTools == {"get_currency_rate", "get_exchange_table", "get_gold_price"}

\* A rate container with its first record only.
RateC1 == JObj([table |-> S("c"), currency |-> S("dolar"), code |-> S("USD"),
                rates |-> JArr(<<RecBidAsk2>>)])

\* Two callers of the single-result tools; the upstream answers with one
\* element, or with the same element and more after it.
FirstProfile ==
    [tools |-> SingleTools,
     codes |-> {<<"u", "s", "d">>},
     dates |-> {<<>>},
     tables |-> {<<"c">>},
     starts |-> {GoodDate},
     ends |-> {GoodDate},
     counts |-> {1},
     npos |-> {0},
     outcomes |-> {Ok(RateC1), Ok(RateC),
                   Ok([RateC1 EXCEPT !.v["rates"] = JArr(<<RecBidAsk2, S("x")>>)]),
                   Ok(JArr(<<TableC>>)), Ok(JArr(<<TableC, TableA>>)),
                   Ok(JArr(<<TableC, EmptyArr>>)),
                   Ok(JArr(<<Gold2>>)), Ok(JArr(<<Gold2, Gold1>>)),
                   Ok(JArr(<<Gold2, EmptyObj>>))}]

NextFirst ==
    \E c \in CallIds :
        \/ Call(c, FirstProfile)
        \/ Respond(c, FirstProfile)
        \/ Receive(c)
        \/ Resume(c)
        \/ Deliver(c)

SpecFirst == Init /\ [][NextFirst]_vars

\* What upstream returned cut down to its first element: the first record
\* of the rates list of a rate container, the first element of an array.
FirstOnly(tool, doc) ==
    IF tool = "get_currency_rate"
    THEN IF doc.kind = "obj" /\ Has(doc, "rates")
            /\ doc.v["rates"].kind = "arr" /\ Len(doc.v["rates"].v) > 0
         THEN [doc EXCEPT !.v["rates"] = JArr(<<doc.v["rates"].v[1]>>)]
         ELSE doc
    ELSE IF doc.kind = "arr" /\ Len(doc.v) > 0 THEN JArr(<<doc.v[1]>>)
    ELSE doc

\* The same call made twice, the responses alike up to their first element.
SameFirst(c, d) ==
    /\ Finished(c)
    /\ Finished(d)
    /\ calls[c].tool \in SingleTools
    /\ calls[d].tool = calls[c].tool
    /\ calls[d].args = calls[c].args
    /\ calls[c].data.kind = calls[d].data.kind
    /\ FirstOnly(calls[c].tool, calls[c].data)
          = FirstOnly(calls[d].tool, calls[d].data)

\* C23: the single-result tools render only the first element of what
\* upstream returned: get_currency_rate the first record of the rates
\* list, get_exchange_table the first table of the array, get_gold_price
\* the first price of the array; further elements leave the text as it is.
C23_FirstElementOnly ==
    \A c, d \in CallIds :
        SameFirst(c, d) => calls[c].result = calls[d].result

C23_Witness ==
    \E c, d \in CallIds :
        /\ SameFirst(c, d)
        /\ calls[c].tool = "get_exchange_table"
        /\ calls[c].data = JArr(<<TableC>>)
        /\ calls[d].data = JArr(<<TableC, TableA>>)
        /\ calls[c].result.kind = "return"
        /\ Contains(calls[d].result.text, <<"Bid Rate: ">>)
        /\ ~Contains(calls[d].result.text, <<"Mid Rate: ">>)
====
